---- MODULE Spec2Model ----
(***************************************************************************)
(* The deploy endpoint of main.py: POST /deploy/ turns an AppConfig into   *)
(* up to four Kubernetes objects (Secret, Deployment, Service, Ingress)    *)
(* and submits them with create-only calls, one after the other, inside    *)
(* one try/except that maps any exception to HTTP 500.                     *)
(*                                                                         *)
(* Several requests may be in progress at once (one execution context per  *)
(* request); one step of a request is one blocking cluster call together   *)
(* with everything the handler does until its next call or its response.   *)
(*                                                                         *)
(* Python values: None or a value is a sequence of length 0 or 1 (<<>> is  *)
(* None, <<v>> is v); a dict is a function from its keys; a list is a      *)
(* sequence.                                                               *)
(***************************************************************************)
EXTENDS Integers, Sequences, FiniteSets, TLC

VARIABLES
    cluster,     \* per kind, the objects the cluster holds
    pc,          \* per request, the handler's position
    config,      \* per received request, its AppConfig
    calls,       \* per request, the cluster calls it made so far, in order
    response,    \* per finished request, the HTTP response
    after,       \* per received request, the requests that had finished when it arrived
    faultsLeft   \* how many more calls the environment may fail for a reason other than a name collision

vars == <<cluster, pc, config, calls, response, after, faultsLeft>>

\* Bounds of the model.
NumRequests == 2
MaxFaults == 1

\* Requests are numbered in their order of arrival.
Requests == 1..NumRequests

Kinds == {"Secret", "Deployment", "Service", "Ingress"}

----------------------------------------------------------------------------
(* Inputs *)

SecretValues == { <<>>, << <<>> >>, << [TOKEN |-> "czNjcjN0"] >> }

Profiles ==
    { [app_name |-> "demo", replicas |-> 2, image_address |-> "nginx", image_tag |-> "1.25",
       domain_address |-> "demo.example.com", service_port |-> 8080,
       resources |-> [cpu |-> "100m"], envs |-> [ENV |-> "prod"]],
      [app_name |-> "shop", replicas |-> 0, image_address |-> "redis", image_tag |-> "7",
       domain_address |-> "", service_port |-> 80,
       resources |-> <<>>, envs |-> <<>>] }

AppConfig ==
    { [app_name |-> p.app_name, replicas |-> p.replicas, image_address |-> p.image_address,
       image_tag |-> p.image_tag, domain_address |-> p.domain_address,
       service_port |-> p.service_port, resources |-> p.resources, envs |-> p.envs,
       secrets |-> s, external_access |-> x] :
      p \in Profiles, s \in SecretValues, x \in BOOLEAN }

----------------------------------------------------------------------------
(* Python truthiness *)

\* Mutant of DictTruthy: `if d is not None:`, which takes an empty dict for a value.
DictNotNone(d) == d # <<>>

\* `if d:` for d a dict or None
DictTruthy(d) == d # <<>> /\ DOMAIN d[1] # {}

\* `if s:` for s a str or None
StrTruthy(s) == s # <<>> /\ s[1] # ""

----------------------------------------------------------------------------
(* The object builders *)

Namespace == "default"

V1Secret(secret_name, secret_data) ==
    [metadata |-> [name |-> secret_name], data |-> secret_data]

ContainerImage(image, tag) == image \o ":" \o tag


EnvFrom(secret_name) ==
    IF StrTruthy(secret_name)
    THEN << [secret_ref |-> [name |-> secret_name[1]]] >>
    ELSE <<>>

V1Container(app_name, image, tag, envs, resources, secret_name) ==
    [name |-> app_name,
     image |-> ContainerImage(image, tag),
     ports |-> << [container_port |-> 80] >>,
     env |-> envs,
     resources |-> [requests |-> resources],
     env_from |-> EnvFrom(secret_name)]

V1Deployment(app_name, replicas, image, tag, envs, resources, secret_name) ==
    [api_version |-> "apps/v1",
     kind |-> "Deployment",
     metadata |-> [name |-> app_name],
     spec |-> [replicas |-> replicas,
               template |-> [metadata |-> [labels |-> [app |-> app_name]],
                             spec |-> [containers |->
                                 << V1Container(app_name, image, tag, envs, resources,
                                                secret_name) >>]],
               selector |-> [matchLabels |-> [app |-> app_name]]]]

V1Service(app_name, service_port) ==
    [api_version |-> "v1",
     kind |-> "Service",
     metadata |-> [name |-> app_name],
     spec |-> [selector |-> [app |-> app_name],
               ports |-> << [port |-> service_port, target_port |-> 80] >>,
               type |-> "ClusterIP"]]

V1Ingress(app_name, domain_address, service_port) ==
    [api_version |-> "networking.k8s.io/v1",
     kind |-> "Ingress",
     metadata |-> [name |-> app_name],
     spec |-> [rules |-> <<
        [host |-> domain_address,
         http |-> [paths |-> <<
            [path |-> "/",
             path_type |-> "Prefix",
             backend |-> [service |-> [name |-> app_name,
                                       port |-> [number |-> service_port]]]] >>]] >>]]

\* Mutant of SecretNameArg: secret_name=config.app_name, whatever secrets is.
SecretNameArgAlways(c) == <<c.app_name>>

\* secret_name=config.app_name if config.secrets else None
SecretNameArg(c) == IF DictTruthy(c.secrets) THEN <<c.app_name>> ELSE <<>>

SecretBody(c) == V1Secret(c.app_name, c.secrets[1])

\* Mutant of DeploymentBody: the container port follows service_port.
DeploymentBodyPortFromConfig(c) ==
    [V1Deployment(c.app_name, c.replicas, c.image_address, c.image_tag, c.envs,
                  c.resources, SecretNameArg(c))
        EXCEPT !.spec.template.spec.containers[1].ports =
                   << [container_port |-> c.service_port] >>]

DeploymentBody(c) ==
    V1Deployment(c.app_name, c.replicas, c.image_address, c.image_tag, c.envs,
                 c.resources, SecretNameArg(c))

ServiceBody(c) == V1Service(c.app_name, c.service_port)

IngressBody(c) == V1Ingress(c.app_name, c.domain_address, c.service_port)

----------------------------------------------------------------------------
(* The cluster API: create-only *)

Exists(kind, namespace, name) ==
    \E o \in cluster[kind] : o.namespace = namespace /\ o.name = name

Conflict ==
    [type |-> "ApiException", status |-> 409, reason |-> "Conflict"]

Unavailable ==
    [type |-> "MaxRetryError", status |-> 0, reason |-> "Connection refused"]

\* str(e)
Str(e) ==
    IF e.type = "ApiException"
    THEN "(" \o ToString(e.status) \o ") Reason: " \o e.reason
    ELSE e.reason

\* The exceptions a create call can raise in the current state.
Raisable(kind, namespace, name) ==
    (IF Exists(kind, namespace, name) THEN {Conflict} ELSE {})
    \cup (IF faultsLeft > 0 THEN {Unavailable} ELSE {})

Call(kind, namespace, body, exc) ==
    [kind |-> kind, namespace |-> namespace, body |-> body, exc |-> exc]

----------------------------------------------------------------------------
(* The handler *)

SuccessResponse(c) ==
    [status_code |-> 200,
     content |-> [status |-> "success",
                  message |-> "Application " \o c.app_name \o " deployed successfully"]]

HTTPException(status_code, detail) ==
    [status_code |-> status_code, content |-> [detail |-> detail]]

\* Mutant of ExceptDetail: a fixed text in place of the error's.
ExceptDetailGeneric(e) == "Internal Server Error"

\* except Exception as e: raise HTTPException(status_code=500, detail=str(e))
ExceptDetail(e) == Str(e)

\* Mutant of ExceptResponse: the exception is swallowed and the request reports success.
ExceptResponseSwallow(c, e) == SuccessResponse(c)

ExceptResponse(c, e) == HTTPException(500, ExceptDetail(e))

\* Mutant of ClusterAfterExcept: the except clause deletes what the request created.
ClusterAfterExceptRollback(r) == [k \in Kinds |-> {o \in cluster[k] : o.by # r}]

\* The except clause makes no cluster call: the cluster is left as it is.
ClusterAfterExcept(r) == cluster

\* The handler's first call: `if config.secrets:` decides whether it is the Secret create.
FirstStep(c) == IF DictTruthy(c.secrets) THEN "secret" ELSE "deployment"

\* Mutants of AfterService: the Ingress step taken whatever external_access is,
\* and the Ingress step never taken.
AfterServiceAlwaysIngress(c) == "ingress"

AfterServiceNoIngress(c) == "return"

\* After the Service create: `if config.external_access:`, else the return statement.
AfterService(c) == IF c.external_access THEN "ingress" ELSE "return"

Init ==
    /\ cluster = [k \in Kinds |-> {}]
    /\ pc = [r \in Requests |-> "idle"]
    /\ config = <<>>
    /\ calls = [r \in Requests |-> <<>>]
    /\ response = <<>>
    /\ after = <<>>
    /\ faultsLeft = MaxFaults

\* A cluster that fails a create only on name collision.
InitCollisionOnly ==
    /\ cluster = [k \in Kinds |-> {}]
    /\ pc = [r \in Requests |-> "idle"]
    /\ config = <<>>
    /\ calls = [r \in Requests |-> <<>>]
    /\ response = <<>>
    /\ after = <<>>
    /\ faultsLeft = 0

\* POST /deploy/ arrives with a validated body; the handler runs up to its first call.
Receive(r, c) ==
    /\ pc[r] = "idle"
    /\ \A q \in Requests : q < r => pc[q] # "idle"
    /\ config' = config @@ (r :> c)
    /\ after' = after @@ (r :> DOMAIN response)
    /\ pc' = [pc EXCEPT ![r] = FirstStep(c)]
    /\ UNCHANGED <<cluster, calls, response, faultsLeft>>

\* One create call of request r and what the handler does with its outcome:
\* a normal return moves on to `next` ("return" is the return statement),
\* an exception goes to the except clause.
Submit(r, kind, body, next) ==
    LET name == body.metadata.name IN
    \/ /\ ~Exists(kind, Namespace, name)
       /\ cluster' = [cluster EXCEPT ![kind] =
                         @ \cup {[namespace |-> Namespace, name |-> name,
                                  body |-> body, by |-> r]}]
       /\ calls' = [calls EXCEPT ![r] = Append(@, Call(kind, Namespace, body, <<>>))]
       /\ IF next = "return"
          THEN /\ pc' = [pc EXCEPT ![r] = "done"]
               /\ response' = response @@ (r :> SuccessResponse(config[r]))
          ELSE /\ pc' = [pc EXCEPT ![r] = next]
               /\ response' = response
       /\ UNCHANGED faultsLeft
    \/ \E e \in Raisable(kind, Namespace, name) :
       /\ calls' = [calls EXCEPT ![r] = Append(@, Call(kind, Namespace, body, <<e>>))]
       /\ pc' = [pc EXCEPT ![r] = "done"]
       /\ response' = response @@ (r :> ExceptResponse(config[r], e))
       /\ faultsLeft' = IF e = Unavailable THEN faultsLeft - 1 ELSE faultsLeft
       /\ cluster' = ClusterAfterExcept(r)

CreateSecret(r) ==
    /\ pc[r] = "secret"
    /\ Submit(r, "Secret", SecretBody(config[r]), "deployment")
    /\ UNCHANGED <<config, after>>

CreateDeployment(r) ==
    /\ pc[r] = "deployment"
    /\ Submit(r, "Deployment", DeploymentBody(config[r]), "service")
    /\ UNCHANGED <<config, after>>

CreateService(r) ==
    /\ pc[r] = "service"
    /\ Submit(r, "Service", ServiceBody(config[r]), AfterService(config[r]))
    /\ UNCHANGED <<config, after>>

CreateIngress(r) ==
    /\ pc[r] = "ingress"
    /\ Submit(r, "Ingress", IngressBody(config[r]), "return")
    /\ UNCHANGED <<config, after>>

Next ==
    \E r \in Requests :
        \/ \E c \in AppConfig : Receive(r, c)
        \/ CreateSecret(r)
        \/ CreateDeployment(r)
        \/ CreateService(r)
        \/ CreateIngress(r)

Spec == Init /\ [][Next]_vars

SpecCollisionOnly == InitCollisionOnly /\ [][Next]_vars

----------------------------------------------------------------------------
(* Properties *)

Received == DOMAIN config

Finished == DOMAIN response

Returned(call) == call.exc = <<>>

Succeeded(r) == r \in Finished /\ response[r].status_code = 200

Failed(r) == r \in Finished /\ response[r].status_code = 500

CallKinds(r) == [i \in 1..Len(calls[r]) |-> calls[r][i].kind]

IsPrefix(s, t) == Len(s) <= Len(t) /\ \A i \in 1..Len(s) : s[i] = t[i]

\* secrets absent or an empty mapping
SecretsEmpty(c) == c.secrets = <<>> \/ c.secrets = << <<>> >>

\* C1: a create call that raises is the last call its request ever makes, and
\* the request ends with status 500 and, as detail, the text of the raised error.
C1_RaiseAbortsWith500 ==
    \A r \in Requests : \A i \in 1..Len(calls[r]) :
        ~Returned(calls[r][i]) =>
            /\ i = Len(calls[r])
            /\ pc[r] = "done"
            /\ r \in Finished
            /\ response[r].status_code = 500
            /\ response[r].content = [detail |-> Str(calls[r][i].exc[1])]

\* A request whose fourth call, the Ingress create, raised after three calls returned.
C1_Witness ==
    \E r \in Finished :
        /\ Len(calls[r]) = 4
        /\ \A i \in 1..3 : Returned(calls[r][i])
        /\ ~Returned(calls[r][4])

\* C2: a request with empty secrets and external_access false never calls a
\* Secret or Ingress create, and when none of its calls raises it makes exactly
\* two calls: the Deployment create, then the Service create.
C2_PlainDescriptorTwoCalls ==
    \A r \in Received :
        (SecretsEmpty(config[r]) /\ ~config[r].external_access) =>
            /\ IsPrefix(CallKinds(r), <<"Deployment", "Service">>)
            /\ (pc[r] = "done" /\ \A i \in 1..Len(calls[r]) : Returned(calls[r][i]))
                   => CallKinds(r) = <<"Deployment", "Service">>

\* A finished request with secrets = {} and no external access, none of whose calls raised.
C2_Witness ==
    \E r \in Finished :
        /\ config[r].secrets = << <<>> >>
        /\ ~config[r].external_access
        /\ Len(calls[r]) = 2
        /\ \A i \in 1..Len(calls[r]) : Returned(calls[r][i])

\* C3: with non-empty secrets the Deployment create is the call right after the
\* Secret create (name = app_name, data = secrets), and the Deployment's
\* container has one env-from secret reference, named app_name; with empty
\* secrets no Secret create precedes it and the container has no env-from.
C3_SecretBeforeDeployment ==
    \A r \in Received : \A i \in 1..Len(calls[r]) :
        calls[r][i].kind = "Deployment" =>
            LET c == config[r]
                container == calls[r][i].body.spec.template.spec.containers[1]
            IN  IF SecretsEmpty(c)
                THEN /\ i = 1
                     /\ container.env_from = <<>>
                ELSE /\ i = 2
                     /\ calls[r][1].kind = "Secret"
                     /\ Returned(calls[r][1])
                     /\ calls[r][1].body.metadata.name = c.app_name
                     /\ calls[r][1].body.data = c.secrets[1]
                     /\ container.env_from = << [secret_ref |-> [name |-> c.app_name]] >>

\* A request with non-empty secrets whose Deployment create was made.
C3_Witness ==
    \E r \in Received :
        /\ ~SecretsEmpty(config[r])
        /\ Len(calls[r]) >= 2
        /\ calls[r][2].kind = "Deployment"
        /\ Returned(calls[r][2])

\* C4: an Ingress create is made only by a request with external_access true,
\* right after its Service create returned, with host = domain_address and
\* backend port number = service_port; and a request with external_access true
\* whose Service create returned goes on to the Ingress create.
C4_IngressAfterService ==
    \A r \in Received :
        /\ \A i \in 1..Len(calls[r]) :
            calls[r][i].kind = "Ingress" =>
                LET rule == calls[r][i].body.spec.rules[1] IN
                /\ config[r].external_access
                /\ i > 1
                /\ calls[r][i-1].kind = "Service"
                /\ Returned(calls[r][i-1])
                /\ rule.host = config[r].domain_address
                /\ rule.http.paths[1].backend.service.port.number = config[r].service_port
        /\ (pc[r] = "done" /\ config[r].external_access
              /\ \E i \in 1..Len(calls[r]) :
                    calls[r][i].kind = "Service" /\ Returned(calls[r][i]))
               => calls[r][Len(calls[r])].kind = "Ingress"

\* A request with external_access true whose Ingress create was made.
C4_Witness ==
    \E r \in Received :
        /\ config[r].external_access
        /\ Len(calls[r]) >= 1
        /\ calls[r][Len(calls[r])].kind = "Ingress"

\* The sequence of creates that applies to a descriptor.
Applicable(c) ==
    (IF SecretsEmpty(c) THEN <<>> ELSE <<"Secret">>)
    \o <<"Deployment", "Service">>
    \o (IF c.external_access THEN <<"Ingress">> ELSE <<>>)

SameName(r, q) == config[r].app_name = config[q].app_name

\* C5: on a cluster that fails a create only on name collision and holds no
\* object of the name before, a Deploy call made when no other call with that
\* name has been received succeeds once it ends, and a Deploy call with the same
\* app_name received after it ended fails with status 500, whatever the
\* secrets and external_access of the two descriptors.
C5_SecondDeployFails ==
    \A r1 \in Finished :
        (\A q \in Received \ {r1} : SameName(q, r1) => r1 \in after[q]) =>
            /\ Succeeded(r1)
            /\ \A r2 \in Finished \ {r1} :
                   SameName(r2, r1) => response[r2].status_code = 500

\* Two Deploy calls with the same app_name, the second received after the
\* first ended, both ended; the second one carries secrets and asks for an
\* Ingress, the first does neither.
C5_Witness ==
    \E r1, r2 \in Finished :
        /\ r1 # r2
        /\ SameName(r1, r2)
        /\ r1 \in after[r2]
        /\ after[r1] = {}
        /\ SecretsEmpty(config[r1]) /\ ~config[r1].external_access
        /\ ~SecretsEmpty(config[r2]) /\ config[r2].external_access

\* C6: a request gets the success response (status success, the message naming
\* app_name) exactly when every create that applies to its descriptor was
\* called and returned; and then the cluster holds every such object under the
\* name app_name.
C6_SuccessIffAllCreated ==
    \A r \in Finished :
        LET c == config[r]
            allReturned == /\ CallKinds(r) = Applicable(c)
                           /\ \A i \in 1..Len(calls[r]) : Returned(calls[r][i])
        IN  /\ Succeeded(r) <=> allReturned
            /\ Succeeded(r) =>
                  /\ response[r].content =
                        [status |-> "success",
                         message |-> "Application " \o c.app_name \o " deployed successfully"]
                  /\ \A i \in 1..Len(Applicable(c)) :
                        Exists(Applicable(c)[i], "default", c.app_name)

\* A request with secrets and external access that got the success response.
C6_Witness ==
    \E r \in Finished :
        /\ Succeeded(r)
        /\ Len(calls[r]) = 4

\* C7: after a request failed, every object its earlier calls created is still
\* in the cluster, as submitted, and its response is status 500 with the error
\* text as its only content: nothing in it names the step or the objects.
C7_NoCompensation ==
    \A r \in Finished :
        Failed(r) =>
            /\ \A i \in 1..Len(calls[r]) :
                  Returned(calls[r][i]) =>
                      [namespace |-> calls[r][i].namespace,
                       name |-> calls[r][i].body.metadata.name,
                       body |-> calls[r][i].body,
                       by |-> r] \in cluster[calls[r][i].kind]
            /\ response[r] =
                  [status_code |-> 500,
                   content |-> [detail |-> Str(calls[r][Len(calls[r])].exc[1])]]

\* A request with secrets that failed at its Service create: its Secret and its
\* Deployment are in the cluster.
C7_Witness ==
    \E r \in Finished :
        /\ Failed(r)
        /\ Len(calls[r]) = 3
        /\ calls[r][3].kind = "Service"
        /\ \E o \in cluster["Deployment"] : o.by = r
        /\ \E o \in cluster["Secret"] : o.by = r

\* C8: every call is made in namespace default with an object named app_name;
\* the Deployment has spec.replicas = replicas and one container, named
\* app_name, with image = image_address:image_tag and the single container
\* port 80; the Service is ClusterIP with selector app = app_name and one port
\* entry, port = service_port, targetPort = 80.
C8_SpecsFromDescriptor ==
    \A r \in Received : \A i \in 1..Len(calls[r]) :
        LET c == config[r]
            call == calls[r][i]
        IN  /\ call.namespace = "default"
            /\ call.body.metadata.name = c.app_name
            /\ call.kind = "Deployment" =>
                  LET containers == call.body.spec.template.spec.containers IN
                  /\ call.body.spec.replicas = c.replicas
                  /\ Len(containers) = 1
                  /\ containers[1].name = c.app_name
                  /\ containers[1].image = c.image_address \o ":" \o c.image_tag
                  /\ containers[1].ports = << [container_port |-> 80] >>
            /\ call.kind = "Service" =>
                  /\ call.body.spec.type = "ClusterIP"
                  /\ call.body.spec.selector = [app |-> c.app_name]
                  /\ call.body.spec.ports =
                        << [port |-> c.service_port, target_port |-> 80] >>

\* A request with service_port 8080 whose Deployment and Service creates were made.
C8_Witness ==
    \E r \in Received :
        /\ config[r].service_port = 8080
        /\ \E i \in 1..Len(calls[r]) : calls[r][i].kind = "Deployment"
        /\ \E i \in 1..Len(calls[r]) : calls[r][i].kind = "Service"

Group(r) == {q \in Received : SameName(q, r)}

Winners(r) == {q \in Group(r) : Succeeded(q)}

OwnsDeployment(q) ==
    \E o \in cluster["Deployment"] :
        o.namespace = "default" /\ o.name = config[q].app_name /\ o.by = q

\* C9: on a cluster that fails a create only on name collision and holds no
\* object of the name before, among the requests with one app_name, however
\* their calls interleave: at most one has succeeded; once all have ended
\* exactly one has succeeded and every other got status 500; the one that
\* succeeds is the one whose Deployment create the cluster accepted; and what
\* any of them created, the losers' objects included, is in the cluster.
C9_OneWinnerPerName ==
    \A r \in Received :
        /\ Cardinality(Winners(r)) <= 1
        /\ Group(r) \subseteq Finished =>
              /\ Cardinality(Winners(r)) = 1
              /\ \A q \in Group(r) \ Winners(r) : response[q].status_code = 500
        /\ r \in Finished => (Succeeded(r) <=> OwnsDeployment(r))
        /\ \A i \in 1..Len(calls[r]) :
              Returned(calls[r][i]) =>
                  \E o \in cluster[calls[r][i].kind] :
                      o.name = config[r].app_name /\ o.by = r

\* Two requests with one app_name in progress at the same time; the one that
\* arrived first lost and its Secret is in the cluster, the other succeeded.
C9_Witness ==
    \E r1, r2 \in Finished :
        /\ r1 # r2
        /\ SameName(r1, r2)
        /\ r1 \notin after[r2]
        /\ r2 \notin after[r1]
        /\ Failed(r1)
        /\ Succeeded(r2)
        /\ \E o \in cluster["Secret"] : o.by = r1

====
